---- MODULE Spec2Model ----
(***************************************************************************)
(* The ledger of blockchain.py: Transaction, MerkleTree, Block and         *)
(* Blockchain, as a state machine.                                         *)
(*                                                                         *)
(* Python lists are heap objects: `heap` maps a list's identity to its     *)
(* contents, and a field that holds a list holds its identity, so that two *)
(* fields naming the same list (Block.transactions and                     *)
(* Blockchain.pending_transactions, blockchain.py:102) see each other's    *)
(* appends.  Python indexes chain from 0; the sequences here start at 1,   *)
(* so chain[1] is the genesis block.                                       *)
(*                                                                         *)
(* hashlib.sha256(...).hexdigest() is modelled as a collision-free hash:   *)
(* a digest is <<tag, hex, payload>>, where payload is the hashed text     *)
(* (kept, so that two digests are equal exactly when the texts are) and    *)
(* hex holds the first HexLen digits of the digest, a checksum of the      *)
(* payload written in base HexBase.                                        *)
(***************************************************************************)
EXTENDS Integers, Sequences, FiniteSets, TLC

\* Bounds of the model.
MaxTx == 3      \* transactions accepted by add_transaction in one run
HexBase == 2    \* digits of the digest alphabet (16 for a hexdigest)
HexLen == 3     \* leading digits of a digest the model keeps (64)
MaxLeaves == 5  \* transactions of one batch, where the batch is drawn whole
MaxRaced == 1   \* appends of a second caller inside the calls of the first

VARIABLES
    chain,                  \* Blockchain.chain
    pending_transactions,   \* Blockchain.pending_transactions (a list identity)
    difficulty,             \* Blockchain.difficulty
    heap,                   \* the lists allocated so far: identity -> contents
    pc,                     \* the statement the caller is at; "idle" between calls
    new_block,              \* local of mine_pending_transactions
    block,                  \* local of Blockchain.mine_block
    ret,                    \* what the last call returned, raised and printed
    accepted,               \* history: the transactions add_transaction appended
    pre,                    \* history: chain, heap and pending when the last call began
    tampered,               \* history: the direct field mutation done, if any
    raced,                  \* history: the appends a second caller made during a call
    users,                  \* the users table: phone_number -> row
    session,                \* the running banking_app.py processes
    committed               \* history: the balance operations committed, in order

vars == <<chain, pending_transactions, difficulty, heap, pc, new_block, block,
          ret, accepted, pre, tampered, raced, users, session, committed>>

----------------------------------------------------------------------------
\* Inputs.

Transaction(sender, receiver, amount, transaction_type) ==
    [cls |-> "Transaction", sender |-> sender, receiver |-> receiver,
     amount |-> amount, transaction_type |-> transaction_type]

\* The transactions the callers submit (blockchain.py:129,132).
TxInputs ==
    { Transaction("Alice", "Bob", 50, "deposit"),
      Transaction("Bob", "Charlie", 30, "withdraw") }

\* Arguments of add_transaction that are not Transaction instances.
NonTxInputs ==
    { [cls |-> "dict", sender |-> "Alice", receiver |-> "Bob", amount |-> 50,
       transaction_type |-> "deposit"] }

\* Values datetime.datetime.now() may return.
Timestamps == {1, 2}

Names == <<"Alice", "Bob", "Charlie", "SYSTEM", "ATM">>

NameCode(s) == IF \E i \in 1..Len(Names) : Names[i] = s
               THEN CHOOSE i \in 1..Len(Names) : Names[i] = s
               ELSE 0

----------------------------------------------------------------------------
\* Digests.

RECURSIVE Pow(_, _)
Pow(b, e) == IF e = 0 THEN 1 ELSE b * Pow(b, e - 1)

\* The first HexLen digits of the digest of a text with checksum `seed`.
HexDigits(seed) == [k \in 1..HexLen |-> (seed \div Pow(HexBase, k - 1)) % HexBase]

\* The number a digest's kept digits spell, 0 for None and for "0".
RECURSIVE DigitSum(_, _)
DigitSum(hex, k) ==
    IF k > Len(hex) THEN 0 ELSE hex[k] * Pow(HexBase, k - 1) + DigitSum(hex, k + 1)

Code(d) == DigitSum(d[2], 1)

sha256(tag, seed, payload) == <<tag, HexDigits(seed), payload>>

None == <<"None", <<>>, <<>>>>

\* The string "0", previous_hash of the genesis block.
ZeroString == <<"0", <<>>, <<>>>>

----------------------------------------------------------------------------
\* Transaction and MerkleTree.

to_dict(tx) == [sender |-> tx.sender, receiver |-> tx.receiver, amount |-> tx.amount]

\* json.dumps(d, sort_keys=True): the values in the order of the sorted keys.
json_dumps(d) == <<d.amount, d.receiver, d.sender>>

\* Mutant: to_dict with transaction_type, the kind hashed with the rest.
hash_transaction_with_kind(tx) ==
    LET d == to_dict(tx)
    IN  sha256("leaf", d.amount + 3 * NameCode(d.receiver) + 5 * NameCode(d.sender),
               <<d.amount, d.receiver, d.sender, tx.transaction_type>>)

hash_transaction(tx) ==
    LET d == to_dict(tx)
    IN  sha256("leaf", d.amount + 3 * NameCode(d.receiver) + 5 * NameCode(d.sender),
               json_dumps(d))

\* Mutant: the pair put in a fixed order before it is hashed.
hash_pair_sorted(hash1, hash2) ==
    LET lo == IF Code(hash2) < Code(hash1) THEN hash2 ELSE hash1
        hi == IF Code(hash2) < Code(hash1) THEN hash1 ELSE hash2
    IN  sha256("pair", 1 + 2 * Code(lo) + 3 * Code(hi), <<lo, hi>>)

hash_pair(hash1, hash2) ==
    sha256("pair", 1 + 2 * Code(hash1) + 3 * Code(hash2), <<hash1, hash2>>)

\* Mutant: the first hash duplicated instead of the last (hashes[0] for hashes[-1]).
MerkleLevel_pad_first(hashes) ==
    LET padded == IF Len(hashes) % 2 # 0 THEN Append(hashes, hashes[1])
                  ELSE hashes
    IN  [i \in 1..(Len(padded) \div 2) |-> hash_pair(padded[2 * i - 1], padded[2 * i])]

\* One pass of the loop body of build_merkle_root.
MerkleLevel(hashes) ==
    LET padded == IF Len(hashes) % 2 # 0 THEN Append(hashes, hashes[Len(hashes)])
                  ELSE hashes
    IN  [i \in 1..(Len(padded) \div 2) |-> hash_pair(padded[2 * i - 1], padded[2 * i])]

RECURSIVE MerkleReduce(_)
MerkleReduce(hashes) ==
    IF Len(hashes) > 1 THEN MerkleReduce(MerkleLevel(hashes)) ELSE hashes[1]

\* Mutant: the loop runs once before its test, a single leaf is paired with itself.
build_merkle_root_pair_single(transactions) ==
    IF transactions = <<>> THEN None
    ELSE MerkleReduce(MerkleLevel([i \in 1..Len(transactions) |->
                                      hash_transaction(transactions[i])]))

build_merkle_root(transactions) ==
    IF transactions = <<>> THEN None
    ELSE MerkleReduce([i \in 1..Len(transactions) |-> hash_transaction(transactions[i])])

----------------------------------------------------------------------------
\* Block.

calculate_hash(b) ==
    sha256("block",
           7 * b.timestamp + 3 * Code(b.previous_hash) + 5 * Code(b.merkle_root) + b.nonce,
           <<b.timestamp, b.previous_hash, b.merkle_root, b.nonce>>)

\* Mutant: lines 53 and 54 swapped, the hash computed while merkle_root is unset.
Block_hash_before_merkle(h, transactions, previous_hash, now) ==
    LET b0 == [kind |-> "Block", timestamp |-> now, transactions |-> transactions,
               previous_hash |-> previous_hash, nonce |-> 0,
               merkle_root |-> None,
               hash |-> None]
    IN  [b0 EXCEPT !.hash = calculate_hash(b0),
                   !.merkle_root = build_merkle_root(h[transactions])]

\* Block.__init__; `transactions` is a list identity, read through heap `h`.
Block(h, transactions, previous_hash, now) ==
    LET b0 == [kind |-> "Block", timestamp |-> now, transactions |-> transactions,
               previous_hash |-> previous_hash, nonce |-> 0,
               merkle_root |-> build_merkle_root(h[transactions]),
               hash |-> None]
    IN  [b0 EXCEPT !.hash = calculate_hash(b0)]

Min(a, b) == IF a < b THEN a ELSE b

\* self.hash[:difficulty]
HashPrefix(hash, d) == SubSeq(hash[2], 1, Min(d, Len(hash[2])))

\* '0' * difficulty
Zeros(d) == [k \in 1..d |-> 0]

\* Mutant: only the first digit is looked at (self.hash[0] == '0').
MeetsDifficulty_first_digit(hash, d) == hash[2][1] = 0

MeetsDifficulty(hash, d) == HashPrefix(hash, d) = Zeros(d)

NoBlock == [kind |-> "none"]

\* The kept digits of a block's digest repeat with this period in the nonce:
\* a search that has not ended after so many nonces never ends.  The model
\* stops following it there.
MaxNonce == Pow(HexBase, HexLen)

----------------------------------------------------------------------------
\* Blockchain.

\* Mutant: the first block instead of the last (chain[0] for chain[-1]).
get_latest_block_first == chain[1]

get_latest_block == chain[Len(chain)]

IsBlock(e) == e.kind = "Block"

\* Mutant: the Merkle root is not recomputed (lines 116-118 missing).
RECURSIVE ValidFrom_no_merkle(_, _, _)
ValidFrom_no_merkle(c, h, i) ==
    IF i > Len(c) THEN "True"
    ELSE LET current_block == c[i]
             previous_block == c[i - 1]
         IN  IF ~IsBlock(current_block) THEN "AttributeError"
             ELSE IF current_block.hash # calculate_hash(current_block) THEN "False"
             ELSE IF ~IsBlock(previous_block) THEN "AttributeError"
             ELSE IF current_block.previous_hash # previous_block.hash THEN "False"
             ELSE ValidFrom_no_merkle(c, h, i + 1)

\* Mutant: the link to the predecessor is not compared (lines 120-122 missing).
RECURSIVE ValidFrom_no_link(_, _, _)
ValidFrom_no_link(c, h, i) ==
    IF i > Len(c) THEN "True"
    ELSE LET current_block == c[i]
         IN  IF ~IsBlock(current_block) THEN "AttributeError"
             ELSE IF current_block.hash # calculate_hash(current_block) THEN "False"
             ELSE IF current_block.merkle_root
                        # build_merkle_root(h[current_block.transactions]) THEN "False"
             ELSE ValidFrom_no_link(c, h, i + 1)

\* is_chain_valid from Python index i - 1 on: "True", "False", or the exception
\* an attribute read of a dict entry raises.
RECURSIVE ValidFrom(_, _, _)
ValidFrom(c, h, i) ==
    IF i > Len(c) THEN "True"
    ELSE LET current_block == c[i]
             previous_block == c[i - 1]
         IN  IF ~IsBlock(current_block) THEN "AttributeError"
             ELSE IF current_block.hash # calculate_hash(current_block) THEN "False"
             ELSE IF current_block.merkle_root
                        # build_merkle_root(h[current_block.transactions]) THEN "False"
             ELSE IF ~IsBlock(previous_block) THEN "AttributeError"
             ELSE IF current_block.previous_hash # previous_block.hash THEN "False"
             ELSE ValidFrom(c, h, i + 1)

is_chain_valid == ValidFrom(chain, heap, 2)

NoArg == [cls |-> "none"]

\* A call that returned `value` after printing `printed`.
Returned(op, arg, value, printed) ==
    [op |-> op, arg |-> arg, raised |-> "none", value |-> value, printed |-> printed]

\* A call that ended with `exception` reaching the caller.
Raised(op, exception) ==
    [op |-> op, arg |-> NoArg, raised |-> exception, value |-> <<"none">>, printed |-> ""]

\* A call that has not returned yet.
Running(op) ==
    [op |-> op, arg |-> NoArg, raised |-> "none", value |-> <<"running">>, printed |-> ""]

Snapshot == [chain |-> chain, heap |-> heap, pending |-> pending_transactions]

\* blockchain.py alone: no users table, no banking_app.py process.
NoBank ==
    /\ users = <<>>
    /\ session = <<>>
    /\ committed = <<>>

Init ==
    /\ \E now \in Timestamps :
          chain = <<Block(<< <<>>, <<>> >>, 1, ZeroString, now)>>
    /\ heap = << <<>>, <<>> >>
    /\ pending_transactions = 2
    /\ difficulty = 2
    /\ pc = "idle"
    /\ new_block = NoBlock
    /\ block = NoBlock
    /\ ret = Returned("__init__", NoArg, <<"NoneType">>, "")
    /\ accepted = <<>>
    /\ pre = [chain |-> chain, heap |-> heap, pending |-> pending_transactions]
    /\ tampered = "no"
    /\ raced = <<>>
    /\ NoBank

\* The sequences over S of length lo..hi.
SeqsOf(S, lo, hi) == UNION { [1..n -> S] : n \in lo..hi }

\* A ledger whose difficulty is d and whose pending list holds the batch txs,
\* before any mining call.
InitWith(batches, difficulties) ==
    /\ \E now \in Timestamps :
          chain = <<Block(<< <<>>, <<>> >>, 1, ZeroString, now)>>
    /\ \E txs \in batches : heap = << <<>>, txs >> /\ accepted = txs
    /\ pending_transactions = 2
    /\ difficulty \in difficulties
    /\ pc = "idle"
    /\ new_block = NoBlock
    /\ block = NoBlock
    /\ ret = Returned("__init__", NoArg, <<"NoneType">>, "")
    /\ pre = [chain |-> chain, heap |-> heap, pending |-> pending_transactions]
    /\ tampered = "no"
    /\ raced = <<>>
    /\ NoBank

\* Batches for the Merkle tree: three transactions that differ pairwise in
\* (sender, receiver, amount).
MerkleTxs == TxInputs \cup { Transaction("Alice", "Bob", 5000, "deposit") }

InitMerkle == InitWith(SeqsOf(MerkleTxs, 0, MaxLeaves), {2})

\* Block.mine_block(difficulty) for each difficulty from 0 to one more than
\* the digits a digest has.
InitMine == InitWith(SeqsOf(TxInputs, 1, 2), 0..(HexLen + 1))

\* Line 93: self.pending_transactions.append(transaction).
AppendPending(transaction) ==
    /\ Len(accepted) < MaxTx
    /\ heap' = [heap EXCEPT ![pending_transactions] = Append(@, transaction)]
    /\ accepted' = Append(accepted, transaction)

\* Mutant: no isinstance test, whatever is passed is appended.
add_transaction_unchecked(transaction) ==
    /\ pc = "idle"
    /\ pre' = Snapshot
    /\ AppendPending(transaction)
    /\ ret' = Returned("add_transaction", transaction, <<"NoneType">>, "")
    /\ UNCHANGED <<chain, pending_transactions, difficulty, pc, new_block, block, tampered>>
    /\ UNCHANGED <<raced, users, session, committed>>

\* add_transaction, lines 91-95.
add_transaction(transaction) ==
    /\ pc = "idle"
    /\ pre' = Snapshot
    /\ IF transaction.cls = "Transaction"
       THEN /\ AppendPending(transaction)
            /\ ret' = Returned("add_transaction", transaction, <<"NoneType">>, "")
       ELSE /\ ret' = Returned("add_transaction", transaction, <<"NoneType">>,
                               "Invalid transaction format!")
            /\ UNCHANGED <<heap, accepted>>
    /\ UNCHANGED <<chain, pending_transactions, difficulty, pc, new_block, block, tampered>>
    /\ UNCHANGED <<raced, users, session, committed>>

\* Mutant: no test of pending_transactions (lines 98-100 missing).
mine_pending_transactions_unguarded ==
    /\ pc = "idle"
    /\ pre' = Snapshot
    /\ ret' = Running("mine_pending_transactions")
    /\ pc' = "mpt_102"
    /\ UNCHANGED <<chain, pending_transactions, difficulty, heap, new_block, block,
                   accepted, tampered>>
    /\ UNCHANGED <<raced, users, session, committed>>

\* mine_pending_transactions, lines 98-100: the test of pending_transactions.
mine_pending_transactions ==
    /\ pc = "idle"
    /\ pre' = Snapshot
    /\ IF heap[pending_transactions] = <<>>
       THEN /\ ret' = Returned("mine_pending_transactions", NoArg, <<"NoneType">>,
                               "No transactions to mine!")
            /\ pc' = "idle"
       ELSE /\ ret' = Running("mine_pending_transactions")
            /\ pc' = "mpt_102"
    /\ UNCHANGED <<chain, pending_transactions, difficulty, heap, new_block, block,
                   accepted, tampered>>
    /\ UNCHANGED <<raced, users, session, committed>>

\* Mutant: build_merkle_root pads the transaction list it is given instead of
\* its own list of hashes (an odd batch of more than one gets its last
\* transaction appended).
mpt_new_block_pads ==
    /\ pc = "mpt_102"
    /\ IF IsBlock(get_latest_block)
       THEN \E now \in Timestamps :
              /\ new_block' = Block(heap, pending_transactions, get_latest_block.hash, now)
              /\ heap' = LET txs == heap[pending_transactions]
                         IN  IF Len(txs) > 1 /\ Len(txs) % 2 # 0
                             THEN [heap EXCEPT ![pending_transactions] =
                                                   Append(txs, txs[Len(txs)])]
                             ELSE heap
              /\ pc' = "mpt_103"
              /\ UNCHANGED ret
       ELSE /\ ret' = Raised("mine_pending_transactions", "AttributeError")
            /\ pc' = "idle"
            /\ UNCHANGED <<new_block, heap>>
    /\ UNCHANGED <<chain, pending_transactions, difficulty, block, accepted,
                   pre, tampered>>
    /\ UNCHANGED <<raced, users, session, committed>>

\* Mutant: the block built from a copy of pending (list(self.pending_transactions)).
mpt_new_block_copy ==
    /\ pc = "mpt_102"
    /\ IF IsBlock(get_latest_block)
       THEN \E now \in Timestamps :
              /\ heap' = Append(heap, heap[pending_transactions])
              /\ new_block' = Block(heap', Len(heap) + 1, get_latest_block.hash, now)
              /\ pc' = "mpt_103"
              /\ UNCHANGED ret
       ELSE /\ ret' = Raised("mine_pending_transactions", "AttributeError")
            /\ pc' = "idle"
            /\ UNCHANGED <<new_block, heap>>
    /\ UNCHANGED <<chain, pending_transactions, difficulty, block, accepted,
                   pre, tampered>>
    /\ UNCHANGED <<raced, users, session, committed>>

\* Line 102: Block(self.pending_transactions, self.get_latest_block().hash).
mpt_new_block ==
    /\ pc = "mpt_102"
    /\ IF IsBlock(get_latest_block)
       THEN \E now \in Timestamps :
              /\ new_block' = Block(heap, pending_transactions, get_latest_block.hash, now)
              /\ pc' = "mpt_103"
              /\ UNCHANGED ret
       ELSE /\ ret' = Raised("mine_pending_transactions", "AttributeError")
            /\ pc' = "idle"
            /\ UNCHANGED new_block
    /\ UNCHANGED <<chain, pending_transactions, difficulty, heap, block, accepted,
                   pre, tampered>>
    /\ UNCHANGED <<raced, users, session, committed>>

\* Mutant: lines 62 and 63 swapped, the hash computed before the nonce moves.
mine_block_iteration_stale ==
    /\ pc = "mpt_103"
    /\ ~MeetsDifficulty(new_block.hash, difficulty)
    /\ new_block' = [new_block EXCEPT !.hash = calculate_hash(new_block), !.nonce = @ + 1]
    /\ UNCHANGED <<chain, pending_transactions, difficulty, heap, pc, block, ret,
                   accepted, pre, tampered>>
    /\ UNCHANGED <<raced, users, session, committed>>

\* Mutant: every iteration reads the clock again (timestamp = datetime.now()).
mine_block_iteration_new_timestamp ==
    /\ pc = "mpt_103"
    /\ ~MeetsDifficulty(new_block.hash, difficulty)
    /\ new_block.nonce < MaxNonce
    /\ \E now \in Timestamps :
          new_block' = LET b == [new_block EXCEPT !.nonce = @ + 1, !.timestamp = now]
                       IN  [b EXCEPT !.hash = calculate_hash(b)]
    /\ UNCHANGED <<chain, pending_transactions, difficulty, heap, pc, block, ret,
                   accepted, pre, tampered>>
    /\ UNCHANGED <<raced, users, session, committed>>

\* Mutant: the search gives up after two iterations (an iteration cap).
mine_block_iteration_capped ==
    /\ pc = "mpt_103"
    /\ ~MeetsDifficulty(new_block.hash, difficulty)
    /\ new_block.nonce < MaxNonce
    /\ IF new_block.nonce >= 2
       THEN /\ pc' = "mpt_104"
            /\ UNCHANGED new_block
       ELSE /\ new_block' = LET b == [new_block EXCEPT !.nonce = @ + 1]
                            IN  [b EXCEPT !.hash = calculate_hash(b)]
            /\ UNCHANGED pc
    /\ UNCHANGED <<chain, pending_transactions, difficulty, heap, block, ret,
                   accepted, pre, tampered>>
    /\ UNCHANGED <<raced, users, session, committed>>

\* Block.mine_block, lines 61-63: one iteration of the search.
mine_block_iteration ==
    /\ pc = "mpt_103"
    /\ ~MeetsDifficulty(new_block.hash, difficulty)
    /\ new_block.nonce < MaxNonce
    /\ new_block' = LET b == [new_block EXCEPT !.nonce = @ + 1]
                    IN  [b EXCEPT !.hash = calculate_hash(b)]
    /\ UNCHANGED <<chain, pending_transactions, difficulty, heap, pc, block, ret,
                   accepted, pre, tampered>>
    /\ UNCHANGED <<raced, users, session, committed>>

\* Block.mine_block, lines 61 and 64: the search ends.
mine_block_return ==
    /\ pc = "mpt_103"
    /\ MeetsDifficulty(new_block.hash, difficulty)
    /\ pc' = "mpt_104"
    /\ ret' = [ret EXCEPT !.printed = "Block mined:"]
    /\ UNCHANGED <<chain, pending_transactions, difficulty, heap, new_block, block,
                   accepted, pre, tampered>>
    /\ UNCHANGED <<raced, users, session, committed>>

\* Mutant: the block appended while its search is still running.
mpt_append_unsealed ==
    /\ pc = "mpt_103"
    /\ chain' = Append(chain, new_block)
    /\ pc' = "mpt_105"
    /\ UNCHANGED <<pending_transactions, difficulty, heap, new_block, block, ret,
                   accepted, pre, tampered>>
    /\ UNCHANGED <<raced, users, session, committed>>

\* Line 104: self.chain.append(new_block).
mpt_append ==
    /\ pc = "mpt_104"
    /\ chain' = Append(chain, new_block)
    /\ pc' = "mpt_105"
    /\ UNCHANGED <<pending_transactions, difficulty, heap, new_block, block, ret,
                   accepted, pre, tampered>>
    /\ UNCHANGED <<raced, users, session, committed>>

\* Mutant: self.pending_transactions.clear(), the list emptied in place.
mpt_clear_in_place ==
    /\ pc = "mpt_105"
    /\ heap' = [heap EXCEPT ![pending_transactions] = <<>>]
    /\ new_block' = NoBlock
    /\ ret' = Returned("mine_pending_transactions", NoArg, <<"NoneType">>, ret.printed)
    /\ pc' = "idle"
    /\ UNCHANGED <<chain, pending_transactions, difficulty, block, accepted, pre, tampered>>
    /\ UNCHANGED <<raced, users, session, committed>>

\* Line 105: self.pending_transactions = [], and the return.
mpt_clear ==
    /\ pc = "mpt_105"
    /\ heap' = Append(heap, <<>>)
    /\ pending_transactions' = Len(heap) + 1
    /\ new_block' = NoBlock
    /\ ret' = Returned("mine_pending_transactions", NoArg, <<"NoneType">>, ret.printed)
    /\ pc' = "idle"
    /\ UNCHANGED <<chain, difficulty, block, accepted, pre, tampered>>
    /\ UNCHANGED <<raced, users, session, committed>>

\* Mutant: Blockchain.mine_block without the test of lines 80-81.
Blockchain_mine_block_unguarded ==
    /\ pc = "idle"
    /\ pre' = Snapshot
    /\ ret' = Running("mine_block")
    /\ pc' = "mb_83"
    /\ UNCHANGED <<chain, pending_transactions, difficulty, heap, new_block, block,
                   accepted, tampered>>
    /\ UNCHANGED <<raced, users, session, committed>>

\* Blockchain.mine_block, lines 80-81: the test of pending_transactions.
Blockchain_mine_block ==
    /\ pc = "idle"
    /\ pre' = Snapshot
    /\ IF heap[pending_transactions] = <<>>
       THEN /\ ret' = Returned("mine_block", NoArg, <<"str", "No transactions to mine">>, "")
            /\ pc' = "idle"
       ELSE /\ ret' = Running("mine_block")
            /\ pc' = "mb_83"
    /\ UNCHANGED <<chain, pending_transactions, difficulty, heap, new_block, block,
                   accepted, tampered>>
    /\ UNCHANGED <<raced, users, session, committed>>

\* record_transaction of transactions.py, lines 42-44: add_transaction(tx), then
\* Blockchain.mine_block(), which finds pending non-empty and goes on to line 83.
record_transaction(tx) ==
    /\ pc = "idle"
    /\ pre' = Snapshot
    /\ AppendPending(tx)
    /\ ret' = Running("record_transaction")
    /\ pc' = "mb_83"
    /\ UNCHANGED <<chain, pending_transactions, difficulty, new_block, block, tampered,
                   raced>>

\* Lines 83-86: the dict that stands for the block.
mb_build ==
    /\ pc = "mb_83"
    /\ block' = [kind |-> "dict", index |-> Len(chain) + 1,
                 transactions |-> pending_transactions]
    /\ pc' = "mb_87"
    /\ UNCHANGED <<chain, pending_transactions, difficulty, heap, new_block, ret,
                   accepted, pre, tampered>>
    /\ UNCHANGED <<raced, users, session, committed>>

\* Line 87: self.chain.append(block).
mb_append ==
    /\ pc = "mb_87"
    /\ chain' = Append(chain, block)
    /\ pc' = "mb_88"
    /\ UNCHANGED <<pending_transactions, difficulty, heap, new_block, block, ret,
                   accepted, pre, tampered>>
    /\ UNCHANGED <<raced, users, session, committed>>

\* Lines 88-89: self.pending_transactions = [], return block.
mb_clear ==
    /\ pc = "mb_88"
    /\ heap' = Append(heap, <<>>)
    /\ pending_transactions' = Len(heap) + 1
    /\ ret' = IF ret.op = "record_transaction"
              THEN Returned("record_transaction", NoArg, <<"NoneType">>, "")
              ELSE Returned("mine_block", NoArg, <<"dict", block>>, "")
    /\ block' = NoBlock
    /\ pc' = "idle"
    /\ UNCHANGED <<chain, difficulty, new_block, accepted, pre, tampered>>
    /\ UNCHANGED <<raced, users, session, committed>>

\* A call of is_chain_valid, lines 107-124, between two operations or (line
\* 144) after the script's mutation.
call_is_chain_valid ==
    /\ pc \in {"idle", "tampered"}
    /\ pre' = Snapshot
    /\ ret' = IF is_chain_valid = "AttributeError"
              THEN Raised("is_chain_valid", "AttributeError")
              ELSE Returned("is_chain_valid", NoArg, <<"bool", is_chain_valid>>, "")
    /\ UNCHANGED <<chain, pending_transactions, difficulty, heap, pc, new_block, block,
                   accepted, tampered>>
    /\ UNCHANGED <<raced, users, session, committed>>

----------------------------------------------------------------------------
\* Direct mutation of stored fields, as the script at the end of blockchain.py
\* does (lines 137-144): one mutation, then is_chain_valid; pc = "tampered"
\* once the mutation is done.

\* Replacements for a stored transaction: another amount, another receiver,
\* another sender, another kind only, and the submitted transactions themselves.
TamperTxs ==
    TxInputs \cup
    { Transaction("Alice", "Bob", 5000, "deposit"),
      Transaction("Alice", "Charlie", 50, "deposit"),
      Transaction("Charlie", "Bob", 50, "deposit"),
      Transaction("Alice", "Bob", 50, "withdraw") }

\* Lines 140-141: chain[i].transactions[k] = tx; chain[i].hash = chain[i].calculate_hash().
tamper_transaction(i, k, tx) ==
    /\ pc = "idle"
    /\ tampered = "no"
    /\ i \in 2..Len(chain)
    /\ IsBlock(chain[i])
    /\ k \in 1..Len(heap[chain[i].transactions])
    /\ heap' = [heap EXCEPT ![chain[i].transactions][k] = tx]
    /\ chain' = [chain EXCEPT ![i].hash = calculate_hash(chain[i])]
    /\ tampered' = IF to_dict(tx) # to_dict(heap[chain[i].transactions][k])
                   THEN "payload"
                   ELSE IF tx # heap[chain[i].transactions][k] THEN "kind" ELSE "same"
    /\ pc' = "tampered"
    /\ pre' = Snapshot
    /\ ret' = Returned("tamper_transaction", tx, <<"NoneType">>, "")
    /\ UNCHANGED <<pending_transactions, difficulty, new_block, block, accepted>>
    /\ UNCHANGED <<raced, users, session, committed>>

\* Lines 140-141 with the Merkle root recomputed as well: chain[i].transactions[k]
\* = tx; chain[i].merkle_root = MerkleTree(chain[i].transactions).root;
\* chain[i].hash = chain[i].calculate_hash().  Later blocks are left as they are.
tamper_consistent(i, k, tx) ==
    /\ pc = "idle"
    /\ tampered = "no"
    /\ i \in 2..Len(chain)
    /\ IsBlock(chain[i])
    /\ k \in 1..Len(heap[chain[i].transactions])
    /\ to_dict(tx) # to_dict(heap[chain[i].transactions][k])
    /\ heap' = [heap EXCEPT ![chain[i].transactions][k] = tx]
    /\ chain' = LET b == [chain[i] EXCEPT
                             !.merkle_root = build_merkle_root(heap'[chain[i].transactions])]
                IN  [chain EXCEPT ![i] = [b EXCEPT !.hash = calculate_hash(b)]]
    /\ tampered' = "consistent"
    /\ pc' = "tampered"
    /\ pre' = Snapshot
    /\ ret' = Returned("tamper_consistent", tx, <<"NoneType">>, "")
    /\ UNCHANGED <<pending_transactions, difficulty, new_block, block, accepted>>
    /\ UNCHANGED <<raced, users, session, committed>>

\* Digests a tamperer may write into previous_hash.
ForgedHashes ==
    { ZeroString, sha256("forged", 0, <<>>) } \cup
    { chain[j].hash : j \in { n \in 1..Len(chain) : IsBlock(chain[n]) } }

\* chain[i].previous_hash = v, with or without chain[i].hash = chain[i].calculate_hash().
tamper_previous_hash(i, v, rehash) ==
    /\ pc = "idle"
    /\ tampered = "no"
    /\ i \in 2..Len(chain)
    /\ IsBlock(chain[i])
    /\ IsBlock(chain[i - 1])
    /\ chain' = LET b == [chain[i] EXCEPT !.previous_hash = v]
                IN  [chain EXCEPT ![i] = IF rehash THEN [b EXCEPT !.hash = calculate_hash(b)]
                                         ELSE b]
    /\ tampered' = IF v # chain[i - 1].hash THEN "link" ELSE "same"
    /\ pc' = "tampered"
    /\ pre' = Snapshot
    /\ ret' = Returned("tamper_previous_hash", NoArg, <<"NoneType">>, "")
    /\ UNCHANGED <<pending_transactions, difficulty, heap, new_block, block, accepted>>
    /\ UNCHANGED <<raced, users, session, committed>>

----------------------------------------------------------------------------
\* A second caller, running add_transaction between two statements of a
\* mining operation of the first.

\* Line 93 run by the second caller while the first is at statement `pc`;
\* `index` is the place in chain of the entry the first caller's call appends.
concurrent_add_transaction(transaction) ==
    /\ pc # "idle"
    /\ transaction.cls = "Transaction"
    /\ Len(raced) < MaxRaced
    /\ heap' = [heap EXCEPT ![pending_transactions] = Append(@, transaction)]
    /\ accepted' = Append(accepted, transaction)
    /\ raced' = Append(raced, [tx |-> transaction, at |-> pc,
                               index |-> IF pc \in {"mpt_105", "mb_88"}
                                         THEN Len(chain) ELSE Len(chain) + 1])
    /\ UNCHANGED <<chain, pending_transactions, difficulty, pc, new_block, block, ret,
                   pre, tampered, users, session, committed>>

----------------------------------------------------------------------------
\* The banking application: auth.py, utils.py, transactions.py and
\* banking_app.py.  Each running banking_app.py is a process of its own with
\* its own Blockchain (transactions.py:26); the users table is shared.
\* Amounts are in cents.

SendFeePerMille == 9         \* TRANSACTION_COST["send"] = 0.009
WithdrawalFeePerMille == 15  \* TRANSACTION_COST["withdrawal"] = 0.015
PasswordAttempts == 3        \* attempts = 3 in password_check
OpeningBalance == 5000       \* users.balance of every account at the start
MaxOps == 2                  \* operations committed to the users table in one run

\* The registered phone numbers, and one that is not registered.
Phones == {"+254700000001", "+254700000002"}

UnknownPhone == "+254700000009"

\* Amounts typed at the prompt of validate_amount_input: whole dollars, which
\* float(amount) of record_transaction represents exactly; 0 is refused, and
\* the opening balance covers one withdrawal or transfer of 3000 but not two.
Amounts == {0, 3000}

\* What is typed at a password prompt: the password, another one, Ctrl-C.
Keys == {"secret", "wrong", "^C"}

\* What can be typed at the prompts of one password_check: a prompt follows
\* only a wrong password, and there are PasswordAttempts prompts at most.
KeySeqs ==
    {keys \in UNION {[1..n -> Keys] : n \in 1..PasswordAttempts} :
        /\ \A i \in 1..(Len(keys) - 1) : keys[i] = "wrong"
        /\ Len(keys) = PasswordAttempts \/ keys[Len(keys)] # "wrong"}

hash_password(password) == <<"argon2", password>>

\* ph.verify(password_hash, password), False where it raises.
unhash_password(password_hash, password) == password_hash = hash_password(password)

\* The loop of password_check, lines 67-79, with `attempts` left.
RECURSIVE PasswordLoop(_, _, _)
PasswordLoop(password_hash, keys, attempts) ==
    IF attempts = 0 THEN "False"
    ELSE LET password == keys[PasswordAttempts - attempts + 1]
         IN  IF password = "^C" THEN "KeyboardInterrupt"
             ELSE IF unhash_password(password_hash, password) THEN "True"
             ELSE PasswordLoop(password_hash, keys, attempts - 1)

\* password_check: "True", "False", or the KeyboardInterrupt getpass lets through.
password_check(phone_number, keys) ==
    IF phone_number \notin DOMAIN users THEN "False"
    ELSE PasswordLoop(users[phone_number].password_hash, keys, PasswordAttempts)

\* login, auth.py lines 69-86.
login(phone_number, keys) ==
    IF phone_number \notin DOMAIN users THEN "False"
    ELSE password_check(phone_number, keys)

\* amount * Decimal(TRANSACTION_COST[...]), as NUMERIC(12, 2) stores the balance.
Fee(amount, per_mille) == (amount * per_mille) \div 1000

\* A process at line 154 of banking_app.py; `ledger` tells whether its
\* Blockchain is the one the model follows.
NewSession(phone_number, ledger) ==
    [pc |-> "main_154", phone_number |-> phone_number, ledger |-> ledger,
     login |-> "none", dashboard |-> FALSE, guarded |-> FALSE,
     action |-> "none", balance |-> 0, amount |-> 0, total_amount |-> 0,
     recipient |-> "none", recipient_balance |-> 0]

\* The users table at the start.
Users0 ==
    [p \in Phones |-> [balance |-> OpeningBalance, password_hash |-> hash_password("secret")]]

\* A function's return to the loop of main, its locals gone.
BackToMenu(s) ==
    [session[s] EXCEPT !.pc = "menu", !.action = "none", !.balance = 0, !.amount = 0,
                       !.total_amount = 0, !.recipient = "none", !.recipient_balance = 0]

\* KeyboardInterrupt inside main: caught at line 161 when main was called at
\* line 158, and main is called again (line 163); not caught when main was
\* called at line 163.
Interrupted(s) ==
    IF session[s].guarded
    THEN [BackToMenu(s) EXCEPT !.guarded = FALSE]
    ELSE [BackToMenu(s) EXCEPT !.pc = "exited"]

LedgerIdle == UNCHANGED <<chain, pending_transactions, difficulty, heap, pc, new_block,
                          block, ret, accepted, pre, tampered, raced>>

\* banking_app.py lines 154-163 up to the loop of main: login, then main.
login_flow(s, keys) ==
    /\ session[s].pc = "main_154"
    /\ LET r == login(session[s].phone_number, keys)
           \* main, lines 80-84: the dashboard if get_user_details finds the account
           main == IF session[s].phone_number \in DOMAIN users
                   THEN [session[s] EXCEPT !.pc = "menu", !.dashboard = TRUE]
                   ELSE [session[s] EXCEPT !.pc = "exited"]
       IN  session' = [session EXCEPT ![s] =
               CASE r = "True" -> [main EXCEPT !.login = r, !.guarded = TRUE]
                 [] r = "False" -> [session[s] EXCEPT !.pc = "exited", !.login = r]
                 [] r = "KeyboardInterrupt" -> [main EXCEPT !.login = r]]
    /\ UNCHANGED <<users, committed>>
    /\ LedgerIdle

\* Choice 0 of the menu.
exit_app(s) ==
    /\ session[s].pc = "menu"
    /\ session' = [session EXCEPT ![s].pc = "exited"]
    /\ UNCHANGED <<users, committed>>
    /\ LedgerIdle

\* Choice 1: line 115 reads the row, deposit lines 49-52 prompt for the amount.
deposit_begin(s, amount) ==
    /\ session[s].pc = "menu"
    /\ Len(committed) < MaxOps
    /\ session' = [session EXCEPT ![s] =
           IF amount > 0
           THEN [session[s] EXCEPT !.pc = "deposit_57", !.action = "deposit",
                                   !.balance = users[session[s].phone_number].balance,
                                   !.amount = amount]
           ELSE BackToMenu(s)]
    /\ UNCHANGED <<users, committed>>
    /\ LedgerIdle

\* deposit lines 56-58: the UPDATE and its commit.
deposit_commit(s) ==
    /\ session[s].pc = "deposit_57"
    /\ LET new_balance == session[s].balance + session[s].amount
       IN  users' = [users EXCEPT ![session[s].phone_number].balance = new_balance]
    /\ committed' = Append(committed, [action |-> "deposit",
                                       phone_number |-> session[s].phone_number,
                                       recipient |-> "none",
                                       amount |-> session[s].amount, total_amount |-> 0])
    /\ session' = [session EXCEPT ![s].pc = "record"]
    /\ LedgerIdle

\* Choice 2: line 115, then withdraw lines 72-86: amount, fee, funds, password.
withdraw_begin(s, amount, keys) ==
    /\ session[s].pc = "menu"
    /\ Len(committed) < MaxOps
    /\ LET balance == users[session[s].phone_number].balance
           total_amount == Fee(amount, WithdrawalFeePerMille) + amount
           checked == password_check(session[s].phone_number, keys)
       IN  session' = [session EXCEPT ![s] =
               IF amount = 0 \/ total_amount > balance \/ checked = "False"
               THEN BackToMenu(s)
               ELSE IF checked = "KeyboardInterrupt" THEN Interrupted(s)
               ELSE [session[s] EXCEPT !.pc = "withdraw_91", !.action = "withdraw",
                                       !.balance = balance, !.amount = amount,
                                       !.total_amount = total_amount]]
    /\ UNCHANGED <<users, committed>>
    /\ LedgerIdle

\* withdraw lines 90-92: the UPDATE and its commit.
withdraw_commit(s) ==
    /\ session[s].pc = "withdraw_91"
    /\ LET new_balance == session[s].balance - session[s].total_amount
       IN  users' = [users EXCEPT ![session[s].phone_number].balance = new_balance]
    /\ committed' = Append(committed, [action |-> "withdraw",
                                       phone_number |-> session[s].phone_number,
                                       recipient |-> "none",
                                       amount |-> session[s].amount,
                                       total_amount |-> session[s].total_amount])
    /\ session' = [session EXCEPT ![s].pc = "record"]
    /\ LedgerIdle

\* Choice 3: line 115, then send lines 105-148: the recipient is looked up
\* until one that exists is typed, three times at most.
send_begin(s, recipient) ==
    /\ session[s].pc = "menu"
    /\ Len(committed) < MaxOps
    /\ session' = [session EXCEPT ![s] =
           IF recipient \in DOMAIN users
           THEN [session[s] EXCEPT !.pc = "send_149", !.action = "send",
                                   !.balance = users[session[s].phone_number].balance,
                                   !.recipient = recipient]
           ELSE BackToMenu(s)]
    /\ UNCHANGED <<users, committed>>
    /\ LedgerIdle

\* send lines 149-167: the recipient's balance is read, then amount, fee,
\* funds and password.
send_fetch(s, amount, keys) ==
    /\ session[s].pc = "send_149"
    /\ LET recipient == session[s].recipient
           total_amount == Fee(amount, SendFeePerMille) + amount
           checked == password_check(session[s].phone_number, keys)
       IN  session' = [session EXCEPT ![s] =
               IF \/ recipient \notin DOMAIN users
                  \/ recipient = session[s].phone_number
                  \/ amount = 0
                  \/ total_amount > session[s].balance
                  \/ checked = "False"
               THEN BackToMenu(s)
               ELSE IF checked = "KeyboardInterrupt" THEN Interrupted(s)
               ELSE [session[s] EXCEPT !.pc = "send_174",
                                       !.recipient_balance = users[recipient].balance,
                                       !.amount = amount,
                                       !.total_amount = total_amount]]
    /\ UNCHANGED <<users, committed>>
    /\ LedgerIdle

\* send lines 169-176: both UPDATEs and their commit.
send_commit(s) ==
    /\ session[s].pc = "send_174"
    /\ LET new_balance_sender == session[s].balance - session[s].total_amount
           new_balance_recipient == session[s].recipient_balance + session[s].amount
       IN  users' = [users EXCEPT ![session[s].phone_number].balance = new_balance_sender,
                                  ![session[s].recipient].balance = new_balance_recipient]
    /\ committed' = Append(committed, [action |-> "send",
                                       phone_number |-> session[s].phone_number,
                                       recipient |-> session[s].recipient,
                                       amount |-> session[s].amount,
                                       total_amount |-> session[s].total_amount])
    /\ session' = [session EXCEPT ![s].pc = "record"]
    /\ LedgerIdle

\* The arguments of record_transaction at lines 61, 95 and 179.
LedgerTransaction(s) ==
    CASE session[s].action = "deposit" ->
             Transaction("SYSTEM", session[s].phone_number, session[s].amount, "DEPOSIT")
      [] session[s].action = "withdraw" ->
             Transaction(session[s].phone_number, "ATM", session[s].amount, "WITHDRAWAL")
      [] session[s].action = "send" ->
             Transaction(session[s].phone_number, session[s].recipient,
                         session[s].amount, "TRANSFER")

\* Lines 61, 95, 179: record_transaction is called, in the process whose
\* Blockchain is followed; in another process the call runs on that process's
\* own Blockchain and is over when the process is looked at again.
bank_record(s) ==
    /\ session[s].pc = "record"
    /\ IF session[s].ledger
       THEN /\ record_transaction(LedgerTransaction(s))
            /\ session' = [session EXCEPT ![s].pc = "recording"]
       ELSE /\ session' = [session EXCEPT ![s] = BackToMenu(s)]
            /\ LedgerIdle
    /\ UNCHANGED <<users, committed>>

\* record_transaction has returned: the messages are printed and the function
\* returns to the loop of main.
bank_record_done(s) ==
    /\ session[s].pc = "recording"
    /\ pc = "idle"
    /\ session' = [session EXCEPT ![s] = BackToMenu(s)]
    /\ UNCHANGED <<users, committed>>
    /\ LedgerIdle

\* Mutant: the balance written is taken back when the process dies.
crash_rollback(s) ==
    /\ session[s].pc = "record"
    /\ session' = [session EXCEPT ![s].pc = "crashed"]
    /\ users' = [users EXCEPT ![session[s].phone_number].balance = session[s].balance]
    /\ UNCHANGED committed
    /\ LedgerIdle

\* The process dies (or record_transaction raises) after conn.commit() and
\* before the transaction is in the ledger.
crash(s) ==
    /\ session[s].pc = "record"
    /\ session' = [session EXCEPT ![s].pc = "crashed"]
    /\ UNCHANGED <<users, committed>>
    /\ LedgerIdle

----------------------------------------------------------------------------
\* Specifications.

\* add_transaction and mine_pending_transactions only.
NextCore ==
    \/ \E transaction \in TxInputs : add_transaction(transaction)
    \/ mine_pending_transactions
    \/ mpt_new_block
    \/ mine_block_iteration
    \/ mine_block_return
    \/ mpt_append
    \/ mpt_clear

SpecCore == Init /\ [][NextCore]_vars

\* mine_pending_transactions on a batch drawn whole.
NextMining ==
    \/ mine_pending_transactions
    \/ mpt_new_block
    \/ mine_block_iteration
    \/ mine_block_return
    \/ mpt_append
    \/ mpt_clear

SpecMerkle == InitMerkle /\ [][NextMining]_vars

\* The calling thread runs: an iteration that can be taken is taken, and so is
\* the return of lines 61 and 64.
SpecMineFair ==
    /\ InitMine
    /\ [][NextMining]_vars
    /\ WF_vars(mine_block_iteration)
    /\ WF_vars(mine_block_return)

\* A pending batch of one to MaxTx transactions, for a mining call that a
\* second caller's add_transaction runs into.
InitRace == InitWith(SeqsOf(TxInputs, 1, MaxTx), {2})

SpecMine == InitMine /\ [][NextMining]_vars

\* One mine_pending_transactions call of the first caller, add_transaction of
\* the second between its statements.
NextRace ==
    \/ NextMining
    \/ \E transaction \in TxInputs : concurrent_add_transaction(transaction)

SpecRace == InitRace /\ [][NextRace]_vars

\* Every operation of Blockchain, one caller.
Next ==
    \/ \E transaction \in TxInputs \cup NonTxInputs : add_transaction(transaction)
    \/ mine_pending_transactions
    \/ mpt_new_block
    \/ mine_block_iteration
    \/ mine_block_return
    \/ mpt_append
    \/ mpt_clear
    \/ Blockchain_mine_block
    \/ mb_build
    \/ mb_append
    \/ mb_clear
    \/ \E tx \in TxInputs :
          record_transaction(tx) /\ UNCHANGED <<users, session, committed>>
    \/ call_is_chain_valid

Spec == Init /\ [][Next]_vars

\* A chain built by add_transaction and mine_pending_transactions, then one
\* direct mutation of a stored field.
NextTamper ==
    \/ NextCore
    \/ \E i \in 2..Len(chain), k \in 1..MaxTx, tx \in TamperTxs : tamper_transaction(i, k, tx)
    \/ \E i \in 2..Len(chain), v \in ForgedHashes, rehash \in BOOLEAN :
          tamper_previous_hash(i, v, rehash)
    \/ \E i \in 2..Len(chain), k \in 1..MaxTx, tx \in TamperTxs : tamper_consistent(i, k, tx)

SpecTamper == Init /\ [][NextTamper]_vars

\* Two callers: the statements of the first interleaved with add_transaction
\* of the second.
NextConcurrent ==
    \/ Next
    \/ \E transaction \in TxInputs : concurrent_add_transaction(transaction)

SpecConcurrent == Init /\ [][NextConcurrent]_vars

\* One banking_app.py process for a phone number given on the command line.
InitBank ==
    /\ \E now \in Timestamps :
          chain = <<Block(<< <<>>, <<>> >>, 1, ZeroString, now)>>
    /\ heap = << <<>>, <<>> >>
    /\ pending_transactions = 2
    /\ difficulty = 2
    /\ pc = "idle"
    /\ new_block = NoBlock
    /\ block = NoBlock
    /\ ret = Returned("__init__", NoArg, <<"NoneType">>, "")
    /\ accepted = <<>>
    /\ pre = [chain |-> chain, heap |-> heap, pending |-> pending_transactions]
    /\ tampered = "no"
    /\ raced = <<>>
    /\ users = Users0
    /\ \E phone_number \in Phones \cup {UnknownPhone} :
          session = <<NewSession(phone_number, TRUE)>>
    /\ committed = <<>>

\* The steps of a process in `session` up to its call of record_transaction.
NextSession ==
    \/ \E s \in DOMAIN session, keys \in KeySeqs : login_flow(s, keys)
    \/ \E s \in DOMAIN session : exit_app(s)
    \/ \E s \in DOMAIN session, amount \in Amounts : deposit_begin(s, amount)
    \/ \E s \in DOMAIN session : deposit_commit(s)
    \/ \E s \in DOMAIN session, amount \in Amounts, keys \in KeySeqs :
          withdraw_begin(s, amount, keys)
    \/ \E s \in DOMAIN session : withdraw_commit(s)
    \/ \E s \in DOMAIN session, recipient \in Phones \cup {UnknownPhone} :
          send_begin(s, recipient)
    \/ \E s \in DOMAIN session, amount \in Amounts, keys \in KeySeqs :
          send_fetch(s, amount, keys)
    \/ \E s \in DOMAIN session : send_commit(s)
    \/ \E s \in DOMAIN session : bank_record(s)
    \/ \E s \in DOMAIN session : crash(s)

\* With the steps of Blockchain.mine_block that record_transaction started.
NextBank ==
    \/ NextSession
    \/ \E s \in DOMAIN session : bank_record_done(s)
    \/ mb_build
    \/ mb_append
    \/ mb_clear

SpecBank == InitBank /\ [][NextBank]_vars

\* Two processes sharing the users table; each records in its own Blockchain,
\* and neither Blockchain is followed.
InitSessions ==
    /\ \E now \in Timestamps :
          chain = <<Block(<< <<>>, <<>> >>, 1, ZeroString, now)>>
    /\ heap = << <<>>, <<>> >>
    /\ pending_transactions = 2
    /\ difficulty = 2
    /\ pc = "idle"
    /\ new_block = NoBlock
    /\ block = NoBlock
    /\ ret = Returned("__init__", NoArg, <<"NoneType">>, "")
    /\ accepted = <<>>
    /\ pre = [chain |-> chain, heap |-> heap, pending |-> pending_transactions]
    /\ tampered = "no"
    /\ raced = <<>>
    /\ users = Users0
    /\ \E p1 \in Phones, p2 \in Phones :
          session = <<NewSession(p1, FALSE), NewSession(p2, FALSE)>>
    /\ committed = <<>>

SpecSessions == InitSessions /\ [][NextSession]_vars

----------------------------------------------------------------------------
\* Properties.

\* The transactions of the entries c[i..], in chain order.
RECURSIVE ChainTransactions(_, _, _)
ChainTransactions(c, h, i) ==
    IF i > Len(c) THEN <<>> ELSE h[c[i].transactions] \o ChainTransactions(c, h, i + 1)

\* The three checks of is_chain_valid on the entry at i, each taken alone.
HashCheck(i) == IsBlock(chain[i]) /\ chain[i].hash = calculate_hash(chain[i])

MerkleCheck(i) ==
    IsBlock(chain[i]) /\ chain[i].merkle_root = build_merkle_root(heap[chain[i].transactions])

LinkCheck(i) ==
    IsBlock(chain[i]) /\ IsBlock(chain[i - 1]) /\ chain[i].previous_hash = chain[i - 1].hash

\* C1: after any sequence of add_transaction and mine_pending_transactions
\* calls on a fresh Blockchain (none included), is_chain_valid() returns True.
C1_ValidAfterCalls == pc = "idle" => is_chain_valid = "True"

\* Scenario A: Alice->Bob 50 mined, then Bob->Charlie 30 mined.
C1_Witness ==
    /\ pc = "idle"
    /\ Len(chain) = 3
    /\ heap[chain[2].transactions] = <<Transaction("Alice", "Bob", 50, "deposit")>>
    /\ heap[chain[3].transactions] = <<Transaction("Bob", "Charlie", 30, "withdraw")>>
    /\ chain[2].nonce > 0
    /\ is_chain_valid = "True"

\* C2: in every state reached by add_transaction and mine_pending_transactions,
\* each block after the genesis block holds in previous_hash the stored
\* (post-mining) hash of its predecessor.
C2_LinkInvariant ==
    \A i \in 2..Len(chain) : chain[i].previous_hash = chain[i - 1].hash

\* Two mined blocks, the first sealed with a nonce above 0.
C2_Witness ==
    /\ Len(chain) = 3
    /\ chain[2].nonce > 0
    /\ chain[3].previous_hash = chain[2].hash
    /\ chain[3].previous_hash # chain[1].hash

\* C3: on a chain built by the ledger, replacing a stored transaction of a
\* block after genesis by one with another (sender, receiver, amount) and
\* overwriting only that block's hash with calculate_hash() makes
\* is_chain_valid() return False.
C3_TamperDetected == tampered = "payload" => is_chain_valid = "False"

\* Scenario B: the amount 50 of the first mined block made 5000.
C3_Witness ==
    /\ tampered = "payload"
    /\ Len(chain) = 3
    /\ heap[chain[2].transactions][1] = Transaction("Alice", "Bob", 5000, "deposit")
    /\ chain[2].hash = calculate_hash(chain[2])
    /\ is_chain_valid = "False"

\* C4: on a chain built by the ledger, setting previous_hash of a block after
\* genesis to a value other than its predecessor's hash, the block's hash
\* recomputed or not, makes is_chain_valid() return False.
C4_LinkBreakDetected == tampered = "link" => is_chain_valid = "False"

\* Scenario C: the link of the last of three blocks broken, its hash recomputed.
C4_Witness ==
    /\ tampered = "link"
    /\ Len(chain) = 3
    /\ chain[3].previous_hash # chain[2].hash
    /\ HashCheck(3) /\ MerkleCheck(3) /\ HashCheck(2) /\ MerkleCheck(2) /\ LinkCheck(2)
    /\ is_chain_valid = "False"

\* C5: is_chain_valid() returns True exactly when every entry after
\* the genesis block passes the hash, Merkle and link checks, and False otherwise.
C5_TrueIffAllChecks ==
    is_chain_valid =
        IF \A i \in 2..Len(chain) : HashCheck(i) /\ MerkleCheck(i) /\ LinkCheck(i)
        THEN "True" ELSE "False"

\* C6: after any sequence of add_transaction and mine_pending_transactions
\* calls, the blocks' transactions followed by pending are the accepted
\* transactions in acceptance order, and no list is shared between two blocks
\* or between a block and pending.
C6_ExactlyOnce ==
    pc = "idle" =>
        /\ ChainTransactions(chain, heap, 1) \o heap[pending_transactions] = accepted
        /\ \A i \in 1..Len(chain) : chain[i].transactions # pending_transactions
        /\ \A i, j \in 1..Len(chain) :
              i # j => chain[i].transactions # chain[j].transactions

\* Three accepted: one in each of two blocks, one still pending.
C6_Witness ==
    /\ pc = "idle"
    /\ Len(chain) = 3
    /\ Len(accepted) = 3
    /\ Len(heap[pending_transactions]) = 1

\* C7: a call of mine_pending_transactions() with pending non-empty appends
\* exactly one block, holding the pending transactions in order, linked to the
\* block that was last and meeting the difficulty; pending is empty afterwards
\* and the earlier entries are unchanged.
C7_MiningPostcondition ==
    (/\ pc = "idle"
     /\ ret.op = "mine_pending_transactions"
     /\ pre.heap[pre.pending] # <<>>)
    => /\ ret.raised = "none"
       /\ Len(chain) = Len(pre.chain) + 1
       /\ SubSeq(chain, 1, Len(pre.chain)) = pre.chain
       /\ IsBlock(chain[Len(chain)])
       /\ heap[chain[Len(chain)].transactions] = pre.heap[pre.pending]
       /\ chain[Len(chain)].previous_hash = pre.chain[Len(pre.chain)].hash
       /\ MeetsDifficulty(chain[Len(chain)].hash, difficulty)
       /\ heap[pending_transactions] = <<>>

\* C8: no state, between calls or between two statements of a mining
\* operation, shows the block appended while pending still holds its
\* transactions, or pending cleared while the block is not appended.
C8_MiningAtomic ==
    /\ \A i \in 2..Len(chain) :
          chain[i].transactions = pending_transactions => heap[pending_transactions] = <<>>
    /\ pc \in {"mpt_102", "mpt_103", "mpt_104", "mb_83", "mb_87"}
          => heap[pending_transactions] # <<>>

\* C9: a mining call with pending empty returns its sentinel (None after
\* "No transactions to mine!" is printed, or the string "No transactions to
\* mine"), raises nothing and leaves chain and pending as they were.
C9_EmptyMining ==
    (/\ pc = "idle"
     /\ ret.op \in {"mine_pending_transactions", "mine_block"}
     /\ pre.heap[pre.pending] = <<>>)
    => /\ ret.raised = "none"
       /\ \/ ret.op = "mine_pending_transactions" /\ ret.value = <<"NoneType">>
                /\ ret.printed = "No transactions to mine!"
          \/ ret.op = "mine_block" /\ ret.value = <<"str", "No transactions to mine">>
       /\ chain = pre.chain
       /\ heap = pre.heap
       /\ pending_transactions = pre.pending

\* An empty mining request made after a block was mined.
C9_Witness ==
    /\ pc = "idle"
    /\ ret.op \in {"mine_pending_transactions", "mine_block"}
    /\ pre.heap[pre.pending] = <<>>
    /\ Len(chain) = 2

\* C10: add_transaction(tx) appends a Transaction at the end of pending and
\* changes nothing else; anything else is dropped with the diagnostic printed,
\* pending and chain unchanged; neither raises.
C10_AddTransaction ==
    (pc = "idle" /\ ret.op = "add_transaction")
    => /\ ret.raised = "none"
       /\ chain = pre.chain
       /\ pending_transactions = pre.pending
       /\ IF ret.arg.cls = "Transaction"
          THEN heap = [pre.heap EXCEPT ![pre.pending] = Append(@, ret.arg)]
          ELSE heap = pre.heap /\ ret.printed = "Invalid transaction format!"

\* A non-Transaction dropped while a transaction is pending and a block is mined.
C10_Witness ==
    /\ pc = "idle"
    /\ ret.op = "add_transaction"
    /\ ret.arg.cls = "dict"
    /\ Len(heap[pending_transactions]) = 1
    /\ Len(chain) = 2

\* C11: at construction, after every iteration of the mining loop and once
\* appended, the hash a Block of the ledger stores is calculate_hash() of its
\* stored timestamp, previous_hash, merkle_root and nonce.
C11_HashCache ==
    /\ IsBlock(new_block) => new_block.hash = calculate_hash(new_block)
    /\ \A i \in 1..Len(chain) :
          IsBlock(chain[i]) => chain[i].hash = calculate_hash(chain[i])

\* A block in the middle of its search, behind a block already appended.
C11_Witness ==
    /\ pc = "mpt_103"
    /\ new_block.nonce > 0
    /\ ~MeetsDifficulty(new_block.hash, difficulty)
    /\ Len(chain) = 2
    /\ chain[2].nonce > 0

\* C12: when Block.mine_block(difficulty) returns, difficulty >= 0, the first
\* `difficulty` digits of the block's hash are all '0'; with difficulty 0 the
\* nonce and the hash are those of the construction.
C12_MiningPostcondition ==
    pc = "mpt_104" =>
        /\ \A k \in 1..difficulty : k <= Len(new_block.hash[2]) /\ new_block.hash[2][k] = 0
        /\ difficulty = 0 =>
              new_block = Block(heap, new_block.transactions, new_block.previous_hash,
                                new_block.timestamp)

\* A search that returned after some iterations with every kept digit '0'.
C12_Witness ==
    /\ pc = "mpt_104"
    /\ difficulty = HexLen
    /\ new_block.nonce > 0

\* A search with difficulty 0 that returned.
C12_WitnessZero ==
    /\ pc = "mpt_104"
    /\ difficulty = 0
    /\ new_block.nonce = 0

\* C13: every entry appended to chain by a mining call, through
\* mine_pending_transactions or through Blockchain.mine_block (the call
\* record_transaction makes), is a Block whose merkle_root is computed from its
\* transactions, whose previous_hash is the hash of the entry before it and
\* whose hash meets difficulty 2.
C13_AppendedEntriesAreBlocks ==
    \A i \in 2..Len(chain) :
        /\ IsBlock(chain[i])
        /\ chain[i].merkle_root = build_merkle_root(heap[chain[i].transactions])
        /\ chain[i].previous_hash = chain[i - 1].hash
        /\ MeetsDifficulty(chain[i].hash, 2)

\* C14: in every state the Blockchain's operations reach, is_chain_valid()
\* returns True or False and raises nothing.
C14_NeverRaises == is_chain_valid \in {"True", "False"}

\* C15: a mining call that appended an entry returns the sealed Block it
\* appended, and a call with pending empty returns a sentinel that no
\* successful call returns.
C15_ReturnTellsOutcome ==
    (/\ pc = "idle"
     /\ ret.op \in {"mine_pending_transactions", "mine_block"}
     /\ ret.raised = "none")
    => IF pre.heap[pre.pending] = <<>>
       THEN ret.value \in {<<"NoneType">>, <<"str", "No transactions to mine">>}
       ELSE /\ ret.value = <<"Block", chain[Len(chain)]>>
            /\ IsBlock(chain[Len(chain)])
            /\ MeetsDifficulty(chain[Len(chain)].hash, difficulty)

\* The sequence s with the elements at i and j exchanged.
Swap(s, i, j) == [s EXCEPT ![i] = s[j], ![j] = s[i]]

\* C16: the Merkle root of no transactions is None, and the root of a single
\* transaction is its leaf digest, unpaired.
C16_MerkleBaseCases ==
    \A i \in 1..Len(chain) :
        LET txs == heap[chain[i].transactions]
        IN  /\ Len(txs) = 0 => chain[i].merkle_root = None
            /\ Len(txs) = 1 => /\ chain[i].merkle_root = hash_transaction(txs[1])
                               /\ chain[i].merkle_root[1] = "leaf"

\* The genesis block, and a block mined from a single transaction.
C16_Witness ==
    /\ Len(chain) = 2
    /\ Len(heap[chain[1].transactions]) = 0
    /\ Len(heap[chain[2].transactions]) = 1

\* C17: a level with an odd number of digits above 1 has its last digest
\* duplicated before pairing: the root of [a, b, c] is the root of [a, b, c, c]
\* and is H(H(la + lb) + H(lc + lc)), pairs taken left before right; with five
\* leaves the three digests of the second level are padded the same way.
C17_OddPadding ==
    \A i \in 1..Len(chain) :
        LET txs  == heap[chain[i].transactions]
            l(k) == hash_transaction(txs[k])
            root == chain[i].merkle_root
        IN  /\ Len(txs) = 3 =>
                  /\ root = hash_pair(hash_pair(l(1), l(2)), hash_pair(l(3), l(3)))
                  /\ root = build_merkle_root(Append(txs, txs[3]))
            /\ Len(txs) = 5 =>
                  LET p12 == hash_pair(l(1), l(2))
                      p34 == hash_pair(l(3), l(4))
                      p55 == hash_pair(l(5), l(5))
                  IN  /\ root = hash_pair(hash_pair(p12, p34), hash_pair(p55, p55))
                      /\ root = build_merkle_root(Append(txs, txs[5]))

\* A block mined from three pairwise different transactions.
C17_Witness ==
    /\ Len(chain) = 2
    /\ Len(heap[chain[2].transactions]) = 3
    /\ \A j, k \in 1..3 :
          j # k => to_dict(heap[chain[2].transactions][j]) # to_dict(heap[chain[2].transactions][k])

\* C18: exchanging two transactions of a batch whose (sender, receiver, amount)
\* differ gives another Merkle root.
C18_OrderSensitive ==
    \A i \in 2..Len(chain) :
        LET txs == heap[chain[i].transactions]
        IN  \A j, k \in 1..Len(txs) :
                to_dict(txs[j]) # to_dict(txs[k])
                    => build_merkle_root(Swap(txs, j, k)) # chain[i].merkle_root

\* A block of five transactions, the last differing from the first.
C18_Witness ==
    /\ Len(chain) = 2
    /\ Len(heap[chain[2].transactions]) = 5
    /\ to_dict(heap[chain[2].transactions][1]) # to_dict(heap[chain[2].transactions][5])

\* C19: transaction_type is not hashed: after the transaction_type alone of a
\* transaction stored in a mined block is changed, the transaction has the leaf
\* digest it had, every batch the Merkle root it had, and is_chain_valid()
\* returns True.
C19_KindNotHashed ==
    tampered = "kind" =>
        /\ is_chain_valid = "True"
        /\ \A i \in 1..Len(chain) :
              LET now == heap[chain[i].transactions]
                  was == pre.heap[chain[i].transactions]
              IN  /\ Len(now) = Len(was)
                  /\ \A k \in 1..Len(now) : hash_transaction(now[k]) = hash_transaction(was[k])
                  /\ build_merkle_root(now) = build_merkle_root(was)
                  /\ build_merkle_root(now) = chain[i].merkle_root

\* The deposit of the first mined block relabelled as a withdrawal.
C19_Witness ==
    /\ tampered = "kind"
    /\ Len(chain) = 3
    /\ pre.heap[chain[2].transactions][1] = Transaction("Alice", "Bob", 50, "deposit")
    /\ heap[chain[2].transactions][1] = Transaction("Alice", "Bob", 50, "withdraw")

\* C20: the chain is never empty; its first block has no transactions,
\* previous_hash "0" and no Merkle root; every later entry has at least one
\* transaction.
C20_GenesisAndBatchShape ==
    /\ Len(chain) >= 1
    /\ IsBlock(chain[1])
    /\ heap[chain[1].transactions] = <<>>
    /\ chain[1].previous_hash = ZeroString
    /\ chain[1].merkle_root = None
    /\ \A i \in 2..Len(chain) : heap[chain[i].transactions] # <<>>

\* Entries appended by both mining entry points, after the batches were cleared.
C20_Witness ==
    /\ pc = "idle"
    /\ Len(chain) = 3
    /\ IsBlock(chain[2])
    /\ ~IsBlock(chain[3])
    /\ heap[pending_transactions] = <<>>

\* C21: a step of Block.mine_block leaves the block's timestamp, previous_hash,
\* merkle_root and transactions (the list and its contents) as they were, and
\* does not lower the nonce.
C21_MiningFrame ==
    [][(pc = "mpt_103" /\ pc' \in {"mpt_103", "mpt_104"}) =>
          /\ new_block'.timestamp = new_block.timestamp
          /\ new_block'.previous_hash = new_block.previous_hash
          /\ new_block'.merkle_root = new_block.merkle_root
          /\ new_block'.transactions = new_block.transactions
          /\ heap'[new_block.transactions] = heap[new_block.transactions]
          /\ new_block'.nonce >= new_block.nonce]_vars

\* A search that returned after more than one iteration.
C21_Witness ==
    /\ pc = "mpt_104"
    /\ new_block.nonce > 1
    /\ new_block.hash # Block(heap, new_block.transactions, new_block.previous_hash,
                              new_block.timestamp).hash

\* C22: a Block enters chain by one append at the end, made after its search
\* has returned (its hash meets the difficulty); every step of add_transaction,
\* mine_pending_transactions and is_chain_valid leaves the entries already in
\* chain where they are, with the fields and the transactions they had, so the
\* chain of a state is a prefix of every later chain.
C22_BlockLifecycle ==
    [][/\ Len(chain') >= Len(chain)
       /\ SubSeq(chain', 1, Len(chain)) = chain
       /\ \A i \in 1..Len(chain) :
             heap'[chain[i].transactions] = heap[chain[i].transactions]
       /\ (chain' # chain /\ IsBlock(chain'[Len(chain')])) =>
             /\ pc = "mpt_104"
             /\ chain' = Append(chain, new_block)
             /\ MeetsDifficulty(new_block.hash, difficulty)
             /\ new_block.hash = calculate_hash(new_block)]_vars

\* Two blocks appended, transactions added and the chain validated since.
C22_Witness ==
    /\ pc = "idle"
    /\ ret.op = "is_chain_valid"
    /\ Len(chain) = 3
    /\ IsBlock(chain[3])
    /\ chain[2].nonce > 0
    /\ heap[pending_transactions] # <<>>

\* The statements of mine_pending_transactions after the Block is constructed
\* (line 102) and before pending is cleared (line 105).
RaceWindow == {"mpt_103", "mpt_104", "mpt_105"}

\* The transactions the second caller appended inside the window of the call
\* that appended chain[i], in order.
RECURSIVE RacedInto(_, _)
RacedInto(i, n) ==
    IF n > Len(raced) THEN <<>>
    ELSE (IF raced[n].at \in RaceWindow /\ raced[n].index = i
          THEN <<raced[n].tx>> ELSE <<>>) \o RacedInto(i, n + 1)

\* The transactions of chain[i] without the last k and the last k alone.
Covered(i, k) ==
    SubSeq(heap[chain[i].transactions], 1, Len(heap[chain[i].transactions]) - k)

Uncovered(i, k) ==
    SubSeq(heap[chain[i].transactions], Len(heap[chain[i].transactions]) - k + 1,
           Len(heap[chain[i].transactions]))

\* One transaction added to an odd batch of more than one whose last
\* transaction has the same (sender, receiver, amount): the batch padded as
\* build_merkle_root pads it.
PaddingTwin(covered, added) ==
    /\ Len(added) = 1
    /\ Len(covered) > 1
    /\ Len(covered) % 2 = 1
    /\ to_dict(added[1]) = to_dict(covered[Len(covered)])

C24_WitnessTwin ==
    /\ pc = "idle"
    /\ Len(chain) = 2
    /\ RacedInto(2, 1) # <<>>
    /\ Len(heap[chain[2].transactions]) = 4
    /\ is_chain_valid = "True"

\* The hash new_block has with nonce n.
HashAtNonce(n) == calculate_hash([new_block EXCEPT !.nonce = n])

\* Some nonce gives new_block a hash that meets the difficulty.
Solvable == \E n \in 0..(MaxNonce - 1) : MeetsDifficulty(HashAtNonce(n), difficulty)

\* C25: Block.mine_block(difficulty) tries the nonces upwards from the nonce
\* of construction: no nonce below the current one meets the difficulty, it
\* returns with the least nonce that does, it returns whenever there is one,
\* and when there is none (difficulty above the digits of a digest) it never
\* returns, however many nonces it has tried.
C25_UncappedSearch ==
    /\ [](pc \in {"mpt_103", "mpt_104"} =>
            /\ \A n \in 0..(new_block.nonce - 1) :
                  ~MeetsDifficulty(HashAtNonce(n), difficulty)
            /\ pc = "mpt_104" => MeetsDifficulty(new_block.hash, difficulty)
            /\ difficulty > HexLen => ~Solvable
            /\ ~Solvable => pc = "mpt_103")
    /\ [](difficulty > HexLen => pc \notin {"mpt_104", "mpt_105"} /\ Len(chain) = 1)
    /\ ((pc = "mpt_103" /\ Solvable) ~> pc = "mpt_104")

\* A search that has tried every nonce the digits can tell apart and goes on.
C25_Witness ==
    /\ pc = "mpt_103"
    /\ difficulty = HexLen + 1
    /\ new_block.nonce = MaxNonce
    /\ ~MeetsDifficulty(new_block.hash, difficulty)

\* A search that returned at the least of several nonces that meet the difficulty.
C25_WitnessLeast ==
    /\ pc = "mpt_104"
    /\ new_block.nonce > 0
    /\ \E n \in (new_block.nonce + 1)..(MaxNonce - 1) :
          MeetsDifficulty(HashAtNonce(n), difficulty)

\* C26: on a chain built by the ledger, giving a transaction of a block after
\* genesis another (sender, receiver, amount) and recomputing that block's
\* merkle_root and hash, the later blocks left alone, makes is_chain_valid()
\* return False, wherever the block is in the chain, the last place included.
C26_ConsistentTamperDetected == tampered = "consistent" => is_chain_valid = "False"

\* The part of C26 that holds: a block with a successor, tampered with
\* consistently, no longer has the hash its successor's previous_hash holds.
C26_DetectedThroughSuccessor ==
    (/\ tampered = "consistent"
     /\ \E i \in 2..(Len(chain) - 1) : chain[i] # pre.chain[i])
    => is_chain_valid = "False"

\* The last block tampered with consistently: every check passes.
C26_LastBlockUndetected ==
    /\ tampered = "consistent"
    /\ chain[Len(chain)] # pre.chain[Len(chain)]
    /\ is_chain_valid = "True"

\* C29: when mine_pending_transactions() has appended a block, pending is a
\* new empty list that no entry of chain holds, and the block holds the
\* batch as it was, nothing added by the Merkle computation; a later
\* add_transaction or is_chain_valid leaves the transactions of every entry of
\* chain, and what is_chain_valid() returns, as they were.
C29_NoAliasing ==
    /\ (/\ pc = "idle"
        /\ ret.op = "mine_pending_transactions"
        /\ ret.raised = "none"
        /\ pre.heap[pre.pending] # <<>>)
       => /\ heap[pending_transactions] = <<>>
          /\ pending_transactions > Len(pre.heap)
          /\ \A i \in 1..Len(chain) : chain[i].transactions # pending_transactions
          /\ heap[chain[Len(chain)].transactions] = pre.heap[pre.pending]
          /\ \A i \in 1..Len(pre.chain) :
                heap[chain[i].transactions] = pre.heap[pre.chain[i].transactions]
    /\ (pc = "idle" /\ ret.op \in {"add_transaction", "is_chain_valid"})
       => /\ chain = pre.chain
          /\ \A i \in 1..Len(chain) :
                heap[chain[i].transactions] = pre.heap[chain[i].transactions]
          /\ is_chain_valid = ValidFrom(pre.chain, pre.heap, 2)

\* A transaction added to the fresh pending list behind a mined batch of two.
C29_Witness ==
    /\ pc = "idle"
    /\ ret.op = "add_transaction"
    /\ ret.arg.cls = "Transaction"
    /\ Len(chain) = 2
    /\ IsBlock(chain[2])
    /\ Len(heap[chain[2].transactions]) = 2
    /\ Len(heap[pending_transactions]) = 1
    /\ is_chain_valid = "True"

\* The balance that the UPDATE of session s writes (lines 56, 90, 169).
Written(s) ==
    IF session[s].action = "deposit"
    THEN session[s].balance + session[s].amount
    ELSE session[s].balance - session[s].total_amount

\* A session between conn.commit() and record_transaction, or dead there.
CommittedUnrecorded(s) == session[s].pc \in {"record", "crashed"}

\* C23: in deposit, withdraw and send the balance UPDATE is committed first
\* and the ledger transaction is recorded afterwards: the ledger never holds
\* more transactions than there are committed operations, and the recorded
\* ones are those of the committed operations in order; between the commit and
\* the recording, and for ever after a crash there, the users table holds the
\* balance written (for a transfer the recipient's as well) while the ledger
\* has no transaction for the last committed operation -- nothing rolls the
\* balance back; once record_transaction was called the ledger has caught up.
C23_CommitBeforeLedger ==
    /\ Len(accepted) <= Len(committed)
    /\ \A i \in 1..Len(accepted) :
          /\ accepted[i].amount = committed[i].amount
          /\ accepted[i].transaction_type = "DEPOSIT" <=> committed[i].action = "deposit"
          /\ accepted[i].transaction_type = "WITHDRAWAL" <=> committed[i].action = "withdraw"
          /\ accepted[i].transaction_type = "TRANSFER" <=> committed[i].action = "send"
    /\ \A s \in DOMAIN session :
          IF CommittedUnrecorded(s)
          THEN /\ Len(accepted) = Len(committed) - 1
               /\ committed[Len(committed)].action = session[s].action
               /\ committed[Len(committed)].amount = session[s].amount
               /\ users[session[s].phone_number].balance = Written(s)
               /\ users[session[s].phone_number].balance # session[s].balance
               /\ session[s].action = "send" =>
                      users[session[s].recipient].balance =
                          session[s].recipient_balance + session[s].amount
          ELSE Len(accepted) = Len(committed)

\* C23 witness: the process died after the commit of its second operation, a
\* transfer: two operations are committed, one transaction is in the ledger.
C23_Witness ==
    \E s \in DOMAIN session :
        /\ session[s].pc = "crashed"
        /\ session[s].action = "send"
        /\ Len(committed) = 2
        /\ Len(accepted) = 1
        /\ users[session[s].phone_number].balance = Written(s)

\* C27: the dashboard of main is entered only after login has returned True in
\* the same run; when login returns False or is interrupted at the password
\* prompt the program does not reach the dashboard.
C27_DashboardOnlyAfterLogin ==
    \A s \in DOMAIN session : session[s].dashboard => session[s].login = "True"

\* C27: a run in which Ctrl-C at the password prompt of login led to the
\* dashboard (lines 161-163).
C27_InterruptedReachesDashboard ==
    \E s \in DOMAIN session :
        /\ session[s].login = "KeyboardInterrupt"
        /\ session[s].dashboard
        /\ session[s].pc = "menu"

\* What a committed operation adds to the balance of phone_number.
Effect(op, phone_number) ==
    (IF op.action = "deposit" /\ op.phone_number = phone_number THEN op.amount ELSE 0)
    + (IF op.action \in {"withdraw", "send"} /\ op.phone_number = phone_number
       THEN 0 - op.total_amount ELSE 0)
    + (IF op.action = "send" /\ op.recipient = phone_number THEN op.amount ELSE 0)

RECURSIVE SumEffects(_, _)
SumEffects(ops, phone_number) ==
    IF ops = <<>> THEN 0
    ELSE Effect(Head(ops), phone_number) + SumEffects(Tail(ops), phone_number)

\* C28: no lost update on balances: with two sessions running balance
\* operations concurrently, the stored balance of every account is its opening
\* balance plus the effects of every committed operation.
C28_NoLostUpdate ==
    \A phone_number \in Phones :
        users[phone_number].balance =
            OpeningBalance + SumEffects(committed, phone_number)

\* C28: both sessions are back at the menu, a transfer to an account and a
\* deposit into it are both committed, and the account holds less than its
\* opening balance plus both amounts.
C28_LostUpdate ==
    /\ \A s \in DOMAIN session : session[s].pc = "menu"
    /\ Len(committed) = 2
    /\ \E i, j \in 1..Len(committed) :
          /\ committed[i].action = "send"
          /\ committed[j].action = "deposit"
          /\ committed[i].recipient = committed[j].phone_number
          /\ users[committed[j].phone_number].balance <
                 OpeningBalance + committed[i].amount + committed[j].amount

====
